---- MODULE Spec2Model ----
(***************************************************************************)
(* Model of seleniumwire/proxy/storage.py: class RequestStorage.            *)
(*                                                                         *)
(* One process hosts the stores of Stores, a main thread (construction,    *)
(* cleanup, signal delivery, exit) and the worker threads of Threads, which *)
(* call save_request, save_response and load_requests.  The namespace      *)
(* directory <base_dir>/seleniumwire is shared with storage directories of  *)
(* other processes (Leftovers).                                            *)
(*                                                                         *)
(* Optional Python values are sequences of length 0 (None) or 1.           *)
(***************************************************************************)
EXTENDS Integers, Sequences, FiniteSets, TLC

(***************************************************************************)
(* Bounds of the model                                                     *)
(***************************************************************************)
\* number of RequestStorage objects the process may construct
NStores == 2
\* number of storage directories of other processes in the namespace
NLeftovers == 1
\* number of worker threads
NThreads == 2
\* number of uuid4() draws for request ids
MaxIds == 2
\* the clock runs from 0 to MaxTime (in days)
MaxTime == 3
\* number of direct _cleanup() calls per store
MaxCleanups == 2
\* number of save_response calls
MaxResponses == 2

\* storage.py:15
REMOVE_DATA_OLDER_THAN_DAYS == 1

Stores == 1..NStores
Leftovers == (NStores + 1)..(NStores + NLeftovers)
\* the names os.listdir can find in the namespace directory
Entries == Stores \cup Leftovers
Threads == 1..NThreads
Ids == 1..MaxIds
\* an id no uuid4() draw ever returns
BogusId == 0

None == << >>
Some(x) == << x >>
\* a modification time of Absent: the entry does not exist
Absent == -1
Free == 0

(***************************************************************************)
(* Inputs of the collaborating proxy                                       *)
(***************************************************************************)
\* the arguments of save_request: a request object (command, path, headers: a
\* message, a list of pairs) and request_body
RequestCalls ==
    { << [command |-> "GET", path |-> "/a", headers |-> << <<"Host", "x">> >>],
         None >>,
      << [command |-> "POST", path |-> "/a",
          headers |-> << <<"Accept", "1">>, <<"Accept", "2">> >>],
         Some("body") >> }
\* the arguments of save_response: a response object (status, reason, headers)
\* and response_body
ResponseCalls ==
    { << [status |-> 200, reason |-> "OK", headers |-> << <<"Server", "s">> >>],
         Some("hello") >>,
      << [status |-> 404, reason |-> "Not Found", headers |-> << >>], None >> }

(***************************************************************************)
(* Paths: os.path.join and os.path.dirname                                 *)
(***************************************************************************)
\* a path is absolute or relative to the working directory, and a sequence of
\* components <<name, number>>
Path(abs, parts) == [abs |-> abs, parts |-> parts]
Rel(name, n) == Path(FALSE, << <<name, n>> >>)

\* os.path.join(a, b): an absolute b discards a
PathJoin(a, b) ==
    IF b.abs THEN b ELSE Path(a.abs, a.parts \o b.parts)

\* os.path.dirname(p)
PathDirname(p) == Path(p.abs, SubSeq(p.parts, 1, Len(p.parts) - 1))

\* dict(message): keys() lists every header name, message[name] is the first
\* value of that name
DictOf(headers) ==
    [ k \in { headers[i][1] : i \in DOMAIN headers } |->
        headers[ CHOOSE i \in DOMAIN headers :
                    /\ headers[i][1] = k
                    /\ \A j \in DOMAIN headers : headers[j][1] = k => i <= j ][2] ]

VARIABLES
    baseAbs,      \* whether base_dir is an absolute path
    cwdResponse,  \* whether the working directory holds an entry named 'response'
    now,          \* the clock, in days
    nsdir,        \* whether the namespace directory exists
    mtime,        \* entry of the namespace directory -> modification time or Absent
    disk,         \* store -> request id of each record subdirectory -> file name -> content
    sstate,       \* store -> "none", "sweep", "ready" or "failed" (construction)
    index,        \* store -> self._index, a sequence of <<path, id>>
    lock,         \* store -> the thread holding self._lock, or Free
    atexitQ,      \* the stores whose _cleanup atexit registered, in order
    sigHandler,   \* signal -> "default", or the store whose _cleanup is installed
    sigResult,    \* what the last signal delivery did
    nextUuid,     \* the next uuid4() draw for a request id
    main,         \* the main thread
    th,           \* worker thread -> its call in flight or last call
    cleanups,     \* store -> direct _cleanup() calls made, and whether one ran alone
    responses     \* number of save_response calls made

vars == << baseAbs, cwdResponse, now, nsdir, mtime, disk, sstate, index, lock,
           atexitQ, sigHandler, sigResult, nextUuid, main, th, cleanups,
           responses >>

envVars == << baseAbs, cwdResponse >>

(***************************************************************************)
(* The file system under the namespace directory                           *)
(***************************************************************************)
\* base_dir: tempfile.gettempdir() or the caller's directory
BaseDir == Path(baseAbs, << <<"tmp", 0>> >>)

\* __init__: os.path.join(base_dir, 'seleniumwire', 'storage-<uuid4>')
StorageDir(s) ==
    PathJoin(PathJoin(BaseDir, Rel("seleniumwire", 0)), Rel("storage-", s))

\* _get_request_dir
GetRequestDir(s, request_id) ==
    PathJoin(StorageDir(s), Rel("request-", request_id))

\* _cleanup, line 113, and _cleanup_old_dirs, line 122: the namespace directory
NamespaceDir(s) == PathDirname(StorageDir(s))

\* the entries of the namespace directory of store s: the storage directories
\* of the other processes, and those of the stores with the same base_dir
Siblings(s) ==
    { e \in Entries : e \in Leftovers \/ NamespaceDir(e) = NamespaceDir(s) }

RootExists(e) == mtime[e] # Absent

\* the record subdirectories <<s, id>> that path p names
DirsAt(p) ==
    { d \in Stores \X (Ids \cup {BogusId}) :
        /\ RootExists(d[1])
        /\ d[2] \in DOMAIN disk[d[1]]
        /\ p = GetRequestDir(d[1], d[2]) }

IsDir(p) == DirsAt(p) # {}

\* the file named fname of the directory p, None when there is none
FileAt(p, fname) ==
    IF DirsAt(p) = {} THEN None
    ELSE LET d == CHOOSE x \in DirsAt(p) : TRUE
         IN  IF fname \in DOMAIN disk[d[1]][d[2]]
             THEN Some(disk[d[1]][d[2]][fname]) ELSE None

\* the write as it would be if it replaced the files of the directory
DiskWriteAlone(p, fname, obj) ==
    LET d == CHOOSE x \in DirsAt(p) : TRUE
    IN  [disk EXCEPT ![d[1]] =
            [ r \in DOMAIN disk[d[1]] |->
                IF r = d[2] THEN [ f \in {fname} |-> obj ] ELSE disk[d[1]][r] ]]

\* disk after writing obj to the file fname of the existing directory p
DiskWrite(p, fname, obj) ==
    LET d == CHOOSE x \in DirsAt(p) : TRUE
        old == disk[d[1]][d[2]]
        new == [ f \in DOMAIN old \cup {fname} |->
                    IF f = fname THEN obj ELSE old[f] ]
    IN  [disk EXCEPT ![d[1]] =
            [ r \in DOMAIN disk[d[1]] |-> IF r = d[2] THEN new ELSE disk[d[1]][r] ]]

NoFiles == [ f \in {} |-> None ]
NoDirs == [ r \in {} |-> NoFiles ]


(***************************************************************************)
(* Threads                                                                 *)
(***************************************************************************)
NoRequest == [command |-> "", path |-> "", headers |-> << >>, id |-> None]
NoResponse == [status |-> 0, reason |-> "", headers |-> << >>]

\* the value of a load_requests call's "after" when some save_request call on
\* the store had not returned its id as load_requests was called; otherwise
\* "after" is the number of save_request calls that had
NotAfter == 0 - 1

\* a worker thread that is in no call and has made none
IdleThread ==
    [ pc |-> "idle", op |-> "none", store |-> 1, rid |-> BogusId,
      req |-> NoRequest, body |-> None, resp |-> NoResponse,
      idx |-> << >>, loaded |-> << >>, ret |-> None, err |-> "",
      after |-> NotAfter ]

\* the main thread, in the host's code
IdleMain ==
    [ pc |-> "idle", store |-> 1, listing |-> {}, exiting |-> FALSE,
      queue |-> << >>, quiet |-> FALSE, err |-> "" ]

\* a call that returned ret or raised err: its locals are gone
Done(call, ret, err, loaded) ==
    [ IdleThread EXCEPT !.pc = "done", !.op = call.op, !.store = call.store,
                        !.rid = call.rid, !.ret = ret, !.err = err,
                        !.idx = IF err = "" THEN call.idx ELSE << >>,
                        !.loaded = loaded, !.after = call.after ]

Returned(t) == th[t].pc = "done"
AtRest(t) == th[t].pc \in {"idle", "done"}
InFlight(t, s) == ~AtRest(t) /\ th[t].store = s
Alive == main.pc # "exited"
Cleaning(s) == main.pc \in {"rmtree", "rmroot", "rmparent"} /\ main.store = s

\* a call on store s starts: a _cleanup of s that is running is no longer alone
MainSeesCall(s) ==
    IF Cleaning(s) THEN [main EXCEPT !.quiet = FALSE] ELSE main

IndexIds(s) == { index[s][i][2] : i \in DOMAIN index[s] }

\* the lock as it would be if thread t kept it after the with block
ReleaseNever(t) == t

\* lines 64-65 and 87-88: the end of a with self._lock block
Release(t) == Free

(***************************************************************************)
(* _save                                                                   *)
(***************************************************************************)
\* _save, line 70: request_dir = os.path.join(self._storage_dir, dirname)
SaveDir(s, dirname) == PathJoin(StorageDir(s), dirname)

\* _save as it would be if it created a missing directory before writing
SaveMakedirs(s, obj, dirname, filename) ==
    LET p == SaveDir(s, dirname)
        named == { d \in Stores \X (Ids \cup {BogusId}) :
                     RootExists(d[1]) /\ p = GetRequestDir(d[1], d[2]) }
    IN  IF IsDir(p)
        THEN [ err |-> "", disk |-> DiskWrite(p, filename, obj) ]
        ELSE IF named = {}
        THEN [ err |-> "FileNotFoundError", disk |-> disk ]
        ELSE LET d == CHOOSE x \in named : TRUE
             IN  [ err |-> "",
                   disk |-> [disk EXCEPT ![d[1]] =
                      [ r \in DOMAIN disk[d[1]] \cup {d[2]} |->
                          IF r = d[2] THEN [ f \in {filename} |-> obj ]
                          ELSE disk[d[1]][r] ]] ]

\* _save, lines 70-73: open(..., 'wb') raises when the directory does not
\* exist; otherwise pickle.dump(obj, out) writes the file
Save(s, obj, dirname, filename) ==
    IF IsDir(SaveDir(s, dirname))
    THEN [ err |-> "", disk |-> DiskWrite(SaveDir(s, dirname), filename, obj) ]
    ELSE [ err |-> "FileNotFoundError", disk |-> disk ]

(***************************************************************************)
(* save_request                                                            *)
(***************************************************************************)
\* save_request, lines 46-52
RequestData(request_id, request) ==
    [ id |-> request_id,
      method |-> request.command,
      path |-> request.path,
      headers |-> DictOf(request.headers),
      response |-> None ]

\* _index_request as it would be if every entry got the same id
IndexEntrySameId(request, request_id) == << request.path, 1 >>

\* _index_request, line 65: the entry appended under the lock
IndexEntry(request, request_id) == << request.path, request_id >>

\* save_request is called; _index_request, lines 61-62
SaveRequestCall(t, s, request, request_body) ==
    /\ Alive /\ AtRest(t) /\ sstate[s] = "ready"
    /\ nextUuid <= MaxIds
    /\ th' = [th EXCEPT ![t] =
                [ IdleThread EXCEPT !.pc = "acquire", !.op = "save_request",
                    !.store = s, !.rid = nextUuid,
                    !.req = [ command |-> request.command, path |-> request.path,
                              headers |-> request.headers, id |-> Some(nextUuid) ],
                    !.body = request_body ]]
    /\ nextUuid' = nextUuid + 1
    /\ main' = MainSeesCall(s)
    /\ UNCHANGED << envVars, responses, now, nsdir, mtime, disk, sstate, index, lock,
                    atexitQ, sigHandler, sigResult, cleanups >>

\* _index_request, line 64: with self._lock
IndexAcquire(t) ==
    /\ Alive /\ th[t].pc = "acquire"
    /\ lock[th[t].store] = Free
    /\ lock' = [lock EXCEPT ![th[t].store] = t]
    /\ th' = [th EXCEPT ![t].pc = "append"]
    /\ UNCHANGED << envVars, responses, now, nsdir, mtime, disk, sstate, index,
                    atexitQ, sigHandler, sigResult, nextUuid, main, cleanups >>

\* _index_request, line 65, and the release of the lock
IndexAppend(t) ==
    /\ Alive /\ th[t].pc = "append"
    /\ index' = [index EXCEPT ![th[t].store] =
                    Append(@, IndexEntry(th[t].req, th[t].rid))]
    /\ lock' = [lock EXCEPT ![th[t].store] = Release(t)]
    /\ th' = [th EXCEPT ![t].pc = "mkdir"]
    /\ UNCHANGED << envVars, responses, now, nsdir, mtime, disk, sstate,
                    atexitQ, sigHandler, sigResult, nextUuid, main, cleanups >>

\* save_request, lines 43-44: os.mkdir(request_dir)
MakeRequestDir(t) ==
    /\ Alive /\ th[t].pc = "mkdir"
    /\ LET s == th[t].store
           rid == th[t].rid
       IN  IF RootExists(s) /\ rid \notin DOMAIN disk[s]
           THEN /\ disk' = [disk EXCEPT ![s] =
                      [ r \in DOMAIN disk[s] \cup {rid} |->
                          IF r = rid THEN NoFiles ELSE disk[s][r] ]]
                /\ mtime' = [mtime EXCEPT ![s] = now]
                /\ th' = [th EXCEPT ![t].pc = "write_request"]
           ELSE /\ th' = [th EXCEPT ![t] = Done(th[t], None,
                            IF RootExists(s) THEN "FileExistsError"
                            ELSE "FileNotFoundError", << >>)]
                /\ UNCHANGED << disk, mtime >>
    /\ UNCHANGED << envVars, responses, now, nsdir, sstate, index, lock,
                    atexitQ, sigHandler, sigResult, nextUuid, main, cleanups >>

\* save_request, line 54, and line 58 when there is no body
SaveRequestData(t) ==
    /\ Alive /\ th[t].pc = "write_request"
    /\ LET s == th[t].store
           request_dir == GetRequestDir(s, th[t].rid)
           saved == Save(s, RequestData(th[t].rid, th[t].req), request_dir, "request")
       IN  /\ disk' = saved.disk
           /\ th' = IF saved.err # ""
                    THEN [th EXCEPT ![t] = Done(th[t], None, saved.err, << >>)]
                    ELSE IF th[t].body # None
                    THEN [th EXCEPT ![t].pc = "write_body"]
                    ELSE [th EXCEPT ![t] = Done(th[t], Some(th[t].rid), "", << >>)]
    /\ UNCHANGED << envVars, responses, now, nsdir, mtime, sstate, index, lock,
                    atexitQ, sigHandler, sigResult, nextUuid, main, cleanups >>

\* save_request, lines 55-58
SaveRequestBody(t) ==
    /\ Alive /\ th[t].pc = "write_body"
    /\ LET s == th[t].store
           request_dir == GetRequestDir(s, th[t].rid)
           saved == Save(s, th[t].body[1], request_dir, "requestbody")
       IN  /\ disk' = saved.disk
           /\ th' = IF saved.err # ""
                    THEN [th EXCEPT ![t] = Done(th[t], None, saved.err, << >>)]
                    ELSE [th EXCEPT ![t] = Done(th[t], Some(th[t].rid), "", << >>)]
    /\ UNCHANGED << envVars, responses, now, nsdir, mtime, sstate, index, lock,
                    atexitQ, sigHandler, sigResult, nextUuid, main, cleanups >>

(***************************************************************************)
(* save_response                                                           *)
(***************************************************************************)
\* save_response, lines 76-80
ResponseData(response) ==
    [ status_code |-> response.status,
      reason |-> response.reason,
      headers |-> response.headers ]

\* save_response is called; lines 76-83
SaveResponseCall(t, s, request_id, response, response_body) ==
    /\ Alive /\ AtRest(t) /\ sstate[s] = "ready"
    /\ request_id = BogusId \/ request_id < nextUuid
    /\ responses < MaxResponses
    /\ responses' = responses + 1
    /\ LET request_dir == GetRequestDir(s, request_id)
           call == [ IdleThread EXCEPT !.op = "save_response", !.store = s,
                       !.rid = request_id, !.resp = response,
                       !.body = response_body ]
           saved == Save(s, ResponseData(response), request_dir, "response")
       IN  /\ disk' = saved.disk
           /\ th' = IF saved.err # ""
                    THEN [th EXCEPT ![t] = Done(call, None, saved.err, << >>)]
                    ELSE [th EXCEPT ![t] = [call EXCEPT !.pc = "write_rbody"]]
    /\ main' = MainSeesCall(s)
    /\ UNCHANGED << envVars, now, nsdir, mtime, sstate, index, lock,
                    atexitQ, sigHandler, sigResult, nextUuid, cleanups >>

\* save_response, line 84
SaveResponseBody(t) ==
    /\ Alive /\ th[t].pc = "write_rbody"
    /\ LET s == th[t].store
           request_dir == GetRequestDir(s, th[t].rid)
           saved == Save(s, th[t].body, request_dir, "responsebody")
       IN  /\ disk' = saved.disk
           /\ th' = [th EXCEPT ![t] = Done(th[t], None, saved.err, << >>)]
    /\ UNCHANGED << envVars, responses, now, nsdir, mtime, sstate, index, lock,
                    atexitQ, sigHandler, sigResult, nextUuid, main, cleanups >>


(***************************************************************************)
(* load_requests                                                           *)
(***************************************************************************)
\* line 95: os.path.exists('response'), a path relative to the working directory
ResponseExists(request_dir) == cwdResponse

\* the loop as it would be if it looked for a response file in any record
\* subdirectory of the store
LoadOneAnyResponse(s, guid) ==
    LET req == FileAt(GetRequestDir(s, guid), "request")
        done == { r \in DOMAIN disk[s] : "response" \in DOMAIN disk[s][r] }
    IN  IF req = None THEN None
        ELSE IF done = {} THEN Some(req[1])
        ELSE Some([req[1] EXCEPT !.response =
                      Some(disk[s][CHOOSE r \in done : TRUE]["response"])])

\* lines 92-98: one pass of the loop; None when an open() raises
LoadOne(s, guid) ==
    LET request_dir == GetRequestDir(s, guid)
        req == FileAt(request_dir, "request")
        res == FileAt(request_dir, "response")
    IN  IF req = None THEN None
        ELSE IF ResponseExists(request_dir)
             THEN IF res = None THEN None
                  ELSE Some([req[1] EXCEPT !.response = Some(res[1])])
             ELSE Some(req[1])

\* the loop as it would be if it ran over self._index itself
LoopIndexLive(t) == index[th[t].store]

\* line 91: the loop runs over the copy of line 88
LoopIndex(t) == th[t].idx

\* every save_request call on store s so far has returned its id
AllSaved(s) ==
    /\ \A t \in Threads : ~(InFlight(t, s) /\ th[t].op = "save_request")
    /\ \A i \in DOMAIN index[s] :
          FileAt(GetRequestDir(s, index[s][i][2]), "request") # None

\* load_requests is called; line 87: with self._lock
LoadAcquire(t, s) ==
    /\ Alive /\ AtRest(t) /\ sstate[s] = "ready"
    /\ lock[s] = Free
    /\ lock' = [lock EXCEPT ![s] = t]
    /\ th' = [th EXCEPT ![t] =
                [ IdleThread EXCEPT !.pc = "copy", !.op = "load_requests",
                                    !.store = s,
                    !.after = IF AllSaved(s) THEN Len(index[s]) ELSE NotAfter ]]
    /\ main' = MainSeesCall(s)
    /\ UNCHANGED << envVars, responses, now, nsdir, mtime, disk, sstate, index,
                    atexitQ, sigHandler, sigResult, nextUuid, cleanups >>

\* line 88 and the release of the lock; lines 90 and 102 when the copy is empty
LoadCopy(t) ==
    /\ Alive /\ th[t].pc = "copy"
    /\ lock' = [lock EXCEPT ![th[t].store] = Release(t)]
    /\ th' = IF index[th[t].store] = << >>
             THEN [th EXCEPT ![t] = Done(th[t], None, "", << >>)]
             ELSE [th EXCEPT ![t].idx = index[th[t].store], ![t].pc = "read"]
    /\ UNCHANGED << envVars, responses, now, nsdir, mtime, disk, sstate, index,
                    atexitQ, sigHandler, sigResult, nextUuid, main, cleanups >>

\* lines 91-100: the next entry of the copy; line 102 after the last one
LoadRead(t) ==
    /\ Alive /\ th[t].pc = "read"
    /\ LET k == Len(th[t].loaded) + 1
           got == LoadOne(th[t].store, LoopIndex(t)[k][2])
       IN  IF got = None
           THEN th' = [th EXCEPT ![t] =
                          Done(th[t], None, "FileNotFoundError", << >>)]
           ELSE IF k = Len(LoopIndex(t))
           THEN th' = [th EXCEPT ![t] =
                          Done(th[t], None, "", Append(th[t].loaded, got[1]))]
           ELSE th' = [th EXCEPT ![t].loaded = Append(@, got[1])]
    /\ UNCHANGED << envVars, responses, now, nsdir, mtime, disk, sstate, index, lock,
                    atexitQ, sigHandler, sigResult, nextUuid, main, cleanups >>

(***************************************************************************)
(* _cleanup                                                                *)
(***************************************************************************)
\* the main thread after a _cleanup returned or raised err: the host's code,
\* the next atexit callback, or the end of the process
AfterCleanup(err) ==
    IF ~main.exiting THEN [IdleMain EXCEPT !.err = err]
    ELSE IF main.queue = << >> THEN [main EXCEPT !.pc = "exited", !.err = err]
    ELSE [main EXCEPT !.pc = "rmtree", !.store = Head(main.queue),
                      !.queue = Tail(main.queue), !.err = err,
                      !.quiet = \A t \in Threads : ~InFlight(t, Head(main.queue))]

\* a direct call of _cleanup() by the host
CleanupCall(s) ==
    /\ main.pc = "idle" /\ sstate[s] = "ready"
    /\ cleanups[s].calls < MaxCleanups
    /\ main' = [main EXCEPT !.pc = "rmtree", !.store = s, !.err = "",
                            !.quiet = \A t \in Threads : ~InFlight(t, s)]
    /\ cleanups' = [cleanups EXCEPT ![s].calls = @ + 1]
    /\ UNCHANGED << envVars, responses, now, nsdir, mtime, disk, sstate, index, lock,
                    atexitQ, sigHandler, sigResult, nextUuid, th >>

\* shutil.rmtree as it would be called without ignore_errors
IgnoreErrorsOff == FALSE

\* line 110: shutil.rmtree(..., ignore_errors=True)
IgnoreErrors == TRUE

\* line 110, shutil.rmtree: the entries it lists are removed; a root that does
\* not exist is an error
RmtreeScan ==
    /\ main.pc = "rmtree"
    /\ LET s == main.store
       IN  IF RootExists(s)
           THEN /\ disk' = [disk EXCEPT ![s] = NoDirs]
                /\ mtime' = [mtime EXCEPT ![s] =
                                IF disk[s] = NoDirs THEN @ ELSE now]
                /\ main' = [main EXCEPT !.pc = "rmroot"]
           ELSE /\ main' = IF IgnoreErrors THEN [main EXCEPT !.pc = "rmparent"]
                           ELSE AfterCleanup("FileNotFoundError")
                /\ UNCHANGED << disk, mtime >>
    /\ UNCHANGED << envVars, responses, now, nsdir, sstate, index, lock,
                    atexitQ, sigHandler, sigResult, nextUuid, th, cleanups >>

\* line 110, shutil.rmtree: the rmdir of the root, an error when an entry was
\* created in it since the listing
RmtreeRmdir ==
    /\ main.pc = "rmroot"
    /\ LET s == main.store
       IN  IF RootExists(s) /\ disk[s] = NoDirs
           THEN /\ mtime' = [mtime EXCEPT ![s] = Absent]
                /\ main' = [main EXCEPT !.pc = "rmparent"]
           ELSE /\ main' = IF IgnoreErrors THEN [main EXCEPT !.pc = "rmparent"]
                           ELSE AfterCleanup("OSError")
                /\ UNCHANGED mtime
    /\ UNCHANGED << envVars, responses, now, nsdir, disk, sstate, index, lock,
                    atexitQ, sigHandler, sigResult, nextUuid, th, cleanups >>

\* line 113: what os.rmdir of the namespace directory raises
RmdirError ==
    IF ~nsdir THEN "FileNotFoundError"
    ELSE IF \E e \in Siblings(main.store) : RootExists(e) THEN "OSError"
    ELSE ""

\* the handler as it would be if it caught FileNotFoundError alone
CaughtNotFoundOnly(err) == err = "FileNotFoundError"

\* line 114: except OSError, which FileNotFoundError is a subclass of
Caught(err) == err \in {"OSError", "FileNotFoundError"}

\* lines 111-116: os.rmdir of the namespace directory
RmdirParent ==
    /\ main.pc = "rmparent"
    /\ nsdir' = IF RmdirError = "" THEN FALSE ELSE nsdir
    /\ cleanups' = [cleanups EXCEPT ![main.store].quiet = @ \/ main.quiet]
    /\ main' = AfterCleanup(IF Caught(RmdirError) THEN "" ELSE RmdirError)
    /\ UNCHANGED << envVars, responses, now, mtime, disk, sstate, index, lock,
                    atexitQ, sigHandler, sigResult, nextUuid, th >>

(***************************************************************************)
(* __init__ and _cleanup_old_dirs                                          *)
(***************************************************************************)
Signals == {"SIGTERM", "SIGINT"}

\* the comparison as it would be with its sides exchanged
IsOldExchanged(e) == now - REMOVE_DATA_OLDER_THAN_DAYS < mtime[e]

\* lines 125-126: getmtime(storage_dir) < (now - timedelta(days=...)).timestamp()
IsOld(e) == mtime[e] < now - REMOVE_DATA_OLDER_THAN_DAYS

\* line 127, shutil.rmtree(storage_dir, ignore_errors=True) of a sibling
RmtreeSibling(e) ==
    /\ mtime' = [mtime EXCEPT ![e] = Absent]
    /\ disk' = [ s \in Stores |-> IF s = e THEN NoDirs ELSE disk[s] ]

\* __init__, lines 29-30, and _cleanup_old_dirs, lines 122-123: os.makedirs and
\* os.listdir
Construct(s) ==
    /\ main.pc = "idle" /\ sstate[s] = "none"
    /\ \A r \in Stores : r < s => sstate[r] # "none"
    /\ nsdir' = TRUE
    /\ mtime' = [mtime EXCEPT ![s] = now]
    /\ sstate' = [sstate EXCEPT ![s] = "sweep"]
    /\ main' = [main EXCEPT !.pc = "sweep", !.store = s,
                  !.listing = { e \in Siblings(s) : e = s \/ RootExists(e) }]
    /\ UNCHANGED << envVars, responses, now, disk, index, lock, atexitQ, sigHandler,
                    sigResult, nextUuid, th, cleanups >>

\* _cleanup_old_dirs, lines 124-127: one entry of the listing; getmtime raises
\* when the entry is gone, and the constructor with it
SweepEntry(e) ==
    /\ main.pc = "sweep" /\ e \in main.listing
    /\ IF ~RootExists(e)
       THEN /\ sstate' = [sstate EXCEPT ![main.store] = "failed"]
            /\ main' = IdleMain
            /\ UNCHANGED << mtime, disk >>
       ELSE /\ main' = [main EXCEPT !.listing = @ \ {e}]
            /\ IF IsOld(e) THEN RmtreeSibling(e) ELSE UNCHANGED << mtime, disk >>
            /\ UNCHANGED sstate
    /\ UNCHANGED << envVars, responses, now, nsdir, index, lock, atexitQ, sigHandler,
                    sigResult, nextUuid, th, cleanups >>

\* __init__, lines 33-39
Register ==
    /\ main.pc = "sweep" /\ main.listing = {}
    /\ index' = [index EXCEPT ![main.store] = << >>]
    /\ lock' = [lock EXCEPT ![main.store] = Free]
    /\ atexitQ' = Append(atexitQ, main.store)
    /\ sigHandler' = [ sig \in Signals |-> main.store ]
    /\ sstate' = [sstate EXCEPT ![main.store] = "ready"]
    /\ main' = IdleMain
    /\ UNCHANGED << envVars, responses, now, nsdir, mtime, disk, sigResult, nextUuid, th,
                    cleanups >>

(***************************************************************************)
(* Shutdown: signals and exit                                              *)
(***************************************************************************)
\* line 107: the parameters of _cleanup besides self
CleanupParams == 0
\* lines 38-39: a signal handler is called with (signum, frame)
SignalArgs == 2

\* lines 38-39: signal.signal replaces the handler of the signal; the stores
\* whose _cleanup a delivery of sig calls
Handlers(sig) == {sigHandler[sig]} \cap Stores

NoSignal == [sig |-> "", handler |-> 0, raised |-> ""]

\* calling the bound method self._cleanup with nargs arguments
CallRaises(nargs) == IF nargs = CleanupParams THEN "" ELSE "TypeError"

\* a signal arrives while the main thread runs the host's code
Signal(sig) ==
    /\ main.pc = "idle"
    /\ LET h == sigHandler[sig]
       IN  /\ h \in Handlers(sig)
           /\ sigResult' = [sig |-> sig, handler |-> h,
                            raised |-> CallRaises(SignalArgs)]
           /\ main' = IF CallRaises(SignalArgs) = ""
                      THEN [main EXCEPT !.pc = "rmtree", !.store = h, !.err = "",
                              !.quiet = \A t \in Threads : ~InFlight(t, h)]
                      ELSE main
    /\ UNCHANGED << envVars, responses, now, nsdir, mtime, disk, sstate, index, lock,
                    atexitQ, sigHandler, nextUuid, th, cleanups >>

Reverse(q) == [ i \in 1..Len(q) |-> q[Len(q) + 1 - i] ]

\* the interpreter exits: the atexit callbacks run, last registered first
Exit ==
    /\ main.pc = "idle"
    /\ main' = LET q == Reverse(atexitQ)
               IN  IF q = << >> THEN [main EXCEPT !.pc = "exited", !.exiting = TRUE]
                   ELSE [main EXCEPT !.pc = "rmtree", !.exiting = TRUE,
                           !.store = Head(q), !.queue = Tail(q),
                           !.quiet = \A t \in Threads : ~InFlight(t, Head(q))]
    /\ UNCHANGED << envVars, responses, now, nsdir, mtime, disk, sstate, index, lock,
                    atexitQ, sigHandler, sigResult, nextUuid, th, cleanups >>

(***************************************************************************)
(* The environment                                                         *)
(***************************************************************************)
Tick ==
    /\ now < MaxTime
    /\ now' = now + 1
    /\ UNCHANGED << envVars, responses, nsdir, mtime, disk, sstate, index, lock, atexitQ,
                    sigHandler, sigResult, nextUuid, main, th, cleanups >>

\* another process runs the _cleanup of its own storage directory
ExternalCleanup(e) ==
    /\ e \in Leftovers /\ RootExists(e)
    /\ mtime' = [mtime EXCEPT ![e] = Absent]
    /\ nsdir' = IF \A x \in Entries \ {e} : ~RootExists(x) THEN FALSE ELSE nsdir
    /\ UNCHANGED << envVars, responses, now, disk, sstate, index, lock, atexitQ,
                    sigHandler, sigResult, nextUuid, main, th, cleanups >>

(***************************************************************************)
(* Specifications                                                          *)
(***************************************************************************)
InitCommon ==
    /\ baseAbs \in BOOLEAN
    /\ cwdResponse \in BOOLEAN
    /\ now = 0
    /\ nsdir = TRUE
    /\ disk = [ s \in Stores |-> NoDirs ]
    /\ index = [ s \in Stores |-> << >> ]
    /\ lock = [ s \in Stores |-> Free ]
    /\ sigResult = NoSignal
    /\ nextUuid = 1
    /\ main = IdleMain
    /\ th = [ t \in Threads |-> IdleThread ]
    /\ cleanups = [ s \in Stores |-> [calls |-> 0, quiet |-> FALSE] ]
    /\ responses = 0

\* no store constructed yet; the storage directories of other processes exist
InitLife ==
    /\ InitCommon
    /\ ~cwdResponse
    /\ mtime = [ e \in Entries |-> IF e \in Leftovers THEN 0 ELSE Absent ]
    /\ sstate = [ s \in Stores |-> "none" ]
    /\ atexitQ = << >>
    /\ sigHandler = [ sig \in Signals |-> 0 ]

\* store 1 constructed, lines 29-39
Init ==
    /\ InitCommon
    /\ mtime = [ e \in Entries |-> IF e \in Leftovers \cup {1} THEN 0 ELSE Absent ]
    /\ sstate = [ s \in Stores |-> IF s = 1 THEN "ready" ELSE "none" ]
    /\ atexitQ = << 1 >>
    /\ sigHandler = [ sig \in Signals |-> 1 ]

\* save_request and save_response in the worker threads
SaveWorker ==
    \E t \in Threads :
        \/ \E s \in Stores, c \in RequestCalls :
                SaveRequestCall(t, s, c[1], c[2])
        \/ IndexAcquire(t)
        \/ IndexAppend(t)
        \/ MakeRequestDir(t)
        \/ SaveRequestData(t)
        \/ SaveRequestBody(t)
        \/ \E s \in Stores, request_id \in Ids \cup {BogusId}, c \in ResponseCalls :
                SaveResponseCall(t, s, request_id, c[1], c[2])
        \/ SaveResponseBody(t)

\* load_requests in the worker threads
LoadWorker ==
    \E t \in Threads :
        \/ \E s \in Stores : LoadAcquire(t, s)
        \/ LoadCopy(t)
        \/ LoadRead(t)

\* _cleanup called by the host
Cleanup ==
    \/ \E s \in Stores : CleanupCall(s)
    \/ RmtreeScan
    \/ RmtreeRmdir
    \/ RmdirParent

\* construction, shutdown and the environment
Life ==
    \/ \E s \in Stores : Construct(s)
    \/ \E e \in Entries : SweepEntry(e)
    \/ Register
    \/ \E sig \in Signals : Signal(sig)
    \/ Exit
    \/ Tick
    \/ \E e \in Leftovers : ExternalCleanup(e)

\* the worker threads on a constructed store
Next == SaveWorker \/ LoadWorker

Spec == Init /\ [][Next]_vars

\* the writers and _cleanup on a constructed store; nothing reads the working
\* directory
InitClean == Init /\ ~cwdResponse

NextClean == SaveWorker \/ Cleanup

SpecClean == InitClean /\ [][NextClean]_vars

\* save_request in one worker thread
OneWriter ==
    \/ \E s \in Stores, c \in RequestCalls : SaveRequestCall(1, s, c[1], c[2])
    \/ IndexAcquire(1)
    \/ IndexAppend(1)
    \/ MakeRequestDir(1)
    \/ SaveRequestData(1)
    \/ SaveRequestBody(1)

\* the life of the stores of one process, from before the first construction to
\* its exit
NextLife == Life \/ RmtreeScan \/ RmtreeRmdir \/ RmdirParent \/ OneWriter

SpecLife == InitLife /\ [][NextLife]_vars


(***************************************************************************)
(* Properties                                                              *)
(***************************************************************************)
\* the ids of a sequence of index entries, and of a sequence of loaded records
EntryIds(idx) == [ i \in DOMAIN idx |-> idx[i][2] ]
RecordIds(loaded) == [ i \in DOMAIN loaded |-> loaded[i].id ]

LoadReturned(t) == th[t].op = "load_requests" /\ Returned(t)

\* the ids that a save_request call on store s has drawn so far
Produced(s) ==
    IndexIds(s) \cup
    { th[t].rid : t \in { u \in Threads : th[u].op = "save_request" /\ th[u].store = s } }

\* C1: a load_requests called after every save_request call on the store has
\* returned its id returns without raising, and returns one record per index
\* entry, its ids in the order of the index.
C1_LoadAfterSaves ==
    \A t \in Threads :
        (LoadReturned(t) /\ th[t].after # NotAfter) =>
            /\ th[t].err = ""
            /\ Len(th[t].loaded) = th[t].after
            /\ RecordIds(th[t].loaded) =
                  EntryIds(SubSeq(index[th[t].store], 1, th[t].after))

\* what holds of C1: it holds when the working directory has no entry named
\* 'response'
LoadAfterSavesElsewhere == cwdResponse \/ C1_LoadAfterSaves

LoadAfterSavesReached ==
    \E t \in Threads :
        /\ LoadReturned(t) /\ th[t].err = "" /\ th[t].after = 2
        /\ Len(th[t].loaded) = 2

\* C2: when load_requests reads a record whose save_response has returned
\* (its responsebody file, written last, exists), the record it appends has the
\* response that save_response stored: the status code, reason and headers.
C2_ResponseAttached ==
    [][ \A t \in Threads :
          (th[t].pc = "read" /\ th'[t] # th[t]) =>
            LET s == th[t].store
                k == Len(th[t].loaded) + 1
                id == th[t].idx[k][2]
            IN  (id \in DOMAIN disk[s] /\ "request" \in DOMAIN disk[s][id]
                   /\ "response" \in DOMAIN disk[s][id]
                   /\ "responsebody" \in DOMAIN disk[s][id]) =>
                    /\ th'[t].err = ""
                    /\ th'[t].loaded[k].response = Some(disk[s][id]["response"]) ]_vars

\* C3: in what load_requests has loaded, a record has a response only if a
\* save_response wrote the response file of that very record.
C3_NoResponseWithoutComplete ==
    \A t \in Threads :
        th[t].op = "load_requests" =>
            \A i \in DOMAIN th[t].loaded :
                LET r == th[t].loaded[i]
                IN  r.response # None =>
                        /\ r.id \in DOMAIN disk[th[t].store]
                        /\ "response" \in DOMAIN disk[th[t].store][r.id]

\* a returned load holds a record with no response whose save_response was
\* never called, beside a record whose save_response has returned
C3_Witness ==
    \E t \in Threads :
        /\ LoadReturned(t) /\ th[t].err = "" /\ Len(th[t].loaded) = 2
        /\ \E i, j \in DOMAIN th[t].loaded :
              /\ th[t].loaded[i].response = None
              /\ "response" \notin DOMAIN disk[th[t].store][th[t].loaded[i].id]
              /\ "responsebody" \in DOMAIN disk[th[t].store][th[t].loaded[j].id]

\* C7: save_response with an id that no save_request of the store has drawn
\* raises FileNotFoundError in its first write and leaves the index and the
\* disk as they were.
C7_UnknownIdRejected ==
    [][ \A t \in Threads :
          (/\ AtRest(t) /\ th'[t] # th[t]
           /\ th'[t].op = "save_response"
           /\ th'[t].rid \notin Produced(th'[t].store)) =>
            /\ th'[t].pc = "done"
            /\ th'[t].err = "FileNotFoundError"
            /\ disk' = disk
            /\ index' = index
            /\ mtime' = mtime ]_vars

\* a save_response with an unknown id has raised, on a store that holds records
C7_Witness ==
    \E t \in Threads :
        /\ th[t].op = "save_response" /\ Returned(t)
        /\ th[t].rid \notin Produced(th[t].store)
        /\ th[t].err = "FileNotFoundError"
        /\ index[th[t].store] # << >>
        /\ \E id \in DOMAIN disk[th[t].store] :
              "request" \in DOMAIN disk[th[t].store][id]

\* C8: load_requests never raises: a record it cannot read is skipped.
C8_LoadNeverAborts ==
    \A t \in Threads : LoadReturned(t) => th[t].err = ""

\* C10: the ids of the index entries of a store are distinct; the id a
\* save_request call draws is new, is set on the request object, is the id of
\* the entry the call appends (with the request's path), the id field of the
\* snapshot it writes, and the value it returns.
C10_IdsUniqueAndConsistent ==
    /\ \A s \in Stores : \A i, j \in DOMAIN index[s] :
          i # j => index[s][i][2] # index[s][j][2]
    /\ \A s \in Stores : \A id \in DOMAIN disk[s] :
          /\ id \in IndexIds(s)
          /\ "request" \in DOMAIN disk[s][id] => disk[s][id]["request"].id = id
    /\ \A t \in Threads :
          th[t].op = "save_request" =>
            /\ \A u \in Threads \ {t} :
                  th[u].op = "save_request" => th[u].rid # th[t].rid
            /\ th[t].rid \in Ids
            /\ ~AtRest(t) => th[t].req.id = Some(th[t].rid)
            /\ th[t].pc \in {"acquire", "append"} =>
                  th[t].rid \notin IndexIds(th[t].store)
            /\ th[t].pc \in {"mkdir", "write_request", "write_body"} =>
                  << th[t].req.path, th[t].rid >> \in
                      { index[th[t].store][i] : i \in DOMAIN index[th[t].store] }
            /\ (Returned(t) /\ th[t].err = "") =>
                  /\ th[t].ret = Some(th[t].rid)
                  /\ th[t].rid \in IndexIds(th[t].store)
                  /\ FileAt(GetRequestDir(th[t].store, th[t].rid), "request") # None
                  /\ FileAt(GetRequestDir(th[t].store, th[t].rid), "request")[1].id
                        = th[t].rid

\* two save_request calls have returned two ids for the same path
C10_Witness ==
    \E s \in Stores :
        /\ Len(index[s]) = 2
        /\ index[s][1][1] = index[s][2][1]
        /\ index[s][1][2] # index[s][2][2]
        /\ \A t \in Threads :
              /\ th[t].op = "save_request" /\ Returned(t)
              /\ th[t].ret = Some(index[s][t][2])


\* C4: once a _cleanup of a store has run with no call on the store in flight,
\* the storage root does not exist; every step of a later _cleanup of the store
\* leaves the namespace directory, the storage roots and the records as they
\* are, and the _cleanup raises nothing.
C4_CleanupIdempotent ==
    /\ [](\A s \in Stores :
            cleanups[s].quiet =>
                /\ ~RootExists(s)
                /\ disk[s] = NoDirs
                /\ main.store = s => main.err = "")
    /\ [][ \A s \in Stores :
             (cleanups[s].quiet /\ Cleaning(s) /\ main'.pc # main.pc) =>
                /\ mtime' = mtime
                /\ disk' = disk
                /\ nsdir' = nsdir ]_vars

\* a second _cleanup of a store that held records has passed rmtree, after a
\* first one that ran alone
C4_Witness ==
    /\ cleanups[1].quiet /\ cleanups[1].calls = 2
    /\ main.pc = "rmparent" /\ main.store = 1
    /\ index[1] # << >>
    /\ ~RootExists(1)

\* C5: a signal delivered to the handler a store installed calls it without an
\* exception, and the store's _cleanup runs; after the exit of the process the
\* root of every store whose _cleanup ran alone is gone.
C5_ShutdownRunsCleanup ==
    /\ sigResult.handler \in Stores =>
          /\ sigResult.raised = ""
          /\ Cleaning(sigResult.handler) \/ ~RootExists(sigResult.handler)
    /\ main.pc = "exited" =>
          \A s \in Stores : cleanups[s].quiet => ~RootExists(s)

\* the part of C5 that holds: the exit of the process
ExitRunsCleanup ==
    main.pc = "exited" =>
        \A s \in Stores : cleanups[s].quiet => ~RootExists(s)

C9_CleanupOwnRootOnly ==
    [][ (main.pc \in {"rmtree", "rmroot", "rmparent"} /\ main'.pc # main.pc) =>
          /\ \A e \in Entries \ {main.store} : mtime'[e] = mtime[e]
          /\ \A s \in Stores \ {main.store} : disk'[s] = disk[s]
          /\ (nsdir /\ ~nsdir') => \A e \in Entries : mtime[e] = Absent
          /\ main'.err = "" ]_vars

\* the _cleanup of store 2 has returned: its root is gone, the root of store 1
\* with a record in it and the namespace directory are still there
C9_Witness ==
    /\ main.exiting /\ main.pc = "rmtree" /\ main.store = 1
    /\ sstate[2] = "ready" /\ ~RootExists(2)
    /\ RootExists(1) /\ disk[1] # NoDirs
    /\ nsdir /\ main.err = ""


\* C11: when load_requests reads an entry of its index copy, the request
\* snapshot of the entry is on disk, whatever save_request call is in flight.
C11_SnapshotBeforeVisible ==
    [][ \A t \in Threads :
          (th[t].pc = "read" /\ th'[t] # th[t]) =>
            LET k == Len(th[t].loaded) + 1
            IN  FileAt(GetRequestDir(th[t].store, th[t].idx[k][2]), "request")
                    # None ]_vars

\* the threads that are at a file-system operation of a call on store s: the
\* mkdir and the writes of save_request, the second write of save_response,
\* the reads of load_requests
AtDiskIO(s) ==
    { t \in Threads :
        /\ th[t].store = s
        /\ th[t].pc \in {"mkdir", "write_request", "write_body", "write_rbody",
                         "read"} }

\* C12: the thread that holds the lock of a store is at the append of
\* _index_request or at the copy of load_requests, never at a file-system
\* operation; a step that changes the disk or reads a record is taken by a
\* thread that does not hold a lock.
C12_LockNeverSpansIO ==
    /\ [](\A s \in Stores :
            lock[s] # Free =>
                /\ th[lock[s]].store = s
                /\ th[lock[s]].pc \in {"append", "copy"}
                /\ lock[s] \notin AtDiskIO(s))
    /\ [][ \A t \in Threads :
             (th'[t] # th[t] /\ (disk' # disk \/ th[t].pc = "read")) =>
                \A s \in Stores : lock[s] # t /\ lock'[s] # t ]_vars

\* thread 1 holds the lock at its append while thread 2 is at the mkdir of its
\* own save_request on the same store
C12_Witness ==
    /\ lock[1] = 1 /\ th[1].pc = "append"
    /\ th[2].store = 1 /\ th[2].pc = "mkdir"
    /\ 2 \in AtDiskIO(1)

\* a is a prefix of b
IsPrefix(a, b) == Len(a) <= Len(b) /\ a = SubSeq(b, 1, Len(a))

\* C13: the index of a store only grows at its end; a load_requests copies
\* the index as it is at the copy, reads the entries of the copy in order and
\* returns the ids of the copy, no entry indexed later; the ids a load has
\* returned are a prefix of the copy of every load that copies afterwards.
C13_PointInTimeCopy ==
    /\ [](\A t \in Threads :
            (th[t].op = "load_requests" /\ th[t].pc \in {"read", "done"}
                /\ th[t].err = "") =>
                /\ IsPrefix(th[t].idx, index[th[t].store])
                /\ IsPrefix(RecordIds(th[t].loaded), EntryIds(th[t].idx))
                /\ Returned(t) => RecordIds(th[t].loaded) = EntryIds(th[t].idx))
    /\ [][ \A s \in Stores : IsPrefix(index[s], index'[s]) ]_vars
    /\ [][ \A t \in Threads :
             (th[t].pc = "copy" /\ th'[t] # th[t]) =>
                /\ th'[t].idx = index[th[t].store]
                /\ \A u \in Threads \ {t} :
                      (LoadReturned(u) /\ th[u].store = th[t].store
                          /\ th[u].err = "") =>
                          IsPrefix(RecordIds(th[u].loaded), EntryIds(th'[t].idx))
          ]_vars

\* two loads of one store have returned, the first one record, the second,
\* called after both save_request calls had returned, the two; the first
\* took its copy before the second entry was indexed
C13_Witness ==
    /\ LoadReturned(1) /\ th[1].err = "" /\ Len(th[1].loaded) = 1
    /\ LoadReturned(2) /\ th[2].err = "" /\ Len(th[2].loaded) = 2
    /\ th[1].store = th[2].store /\ th[2].after = 2
    /\ th[1].loaded[1].id = th[2].loaded[1].id

\* C14: a _cleanup raises nothing, and when a _cleanup of a store has returned
\* and no save_request or save_response on the store is in flight, the
\* storage root of the store does not exist.
C14_CleanupReclaims ==
    /\ main.err = ""
    /\ \A s \in Stores :
          (/\ cleanups[s].calls > 0 /\ ~Cleaning(s)
           /\ \A t \in Threads : ~InFlight(t, s)) => ~RootExists(s)

\* the part of C14 that holds: a _cleanup raises nothing, and one that ran
\* with no call on the store in flight leaves no root
CleanupAloneReclaims ==
    /\ main.err = ""
    /\ \A s \in Stores : cleanups[s].quiet => ~RootExists(s)

\* C15: the storage root of a constructed store is removed by no step but one
\* of the store's own _cleanup: no sweep of another store's constructor
\* removes it.
C15_RootRemovedByOwnerOnly ==
    [][ \A s \in Stores :
          (sstate[s] = "ready" /\ RootExists(s) /\ mtime'[s] = Absent) =>
              Cleaning(s) ]_vars

\* C16: a response file that save_response has written is never written
\* again: its content stays what the first save_response stored.
C16_ResponseWrittenOnce ==
    [][ \A s \in Stores : \A id \in DOMAIN disk[s] :
          "response" \in DOMAIN disk[s][id] =>
              /\ id \in DOMAIN disk'[s]
              /\ "response" \in DOMAIN disk'[s][id]
              /\ disk'[s][id]["response"] = disk[s][id]["response"] ]_vars

\* C17: a delivery of a signal calls the _cleanup of every constructed store:
\* the registration of a store keeps the handlers installed before it.
C17_HandlersCompose ==
    \A sig \in Signals : \A s \in Stores :
        sstate[s] = "ready" => s \in Handlers(sig)

\* the files of the disk other than the response and responsebody files of
\* the record id of store s
OtherFiles(d, s, id) ==
    [ r \in Stores |->
        [ x \in DOMAIN d[r] |->
            [ f \in { g \in DOMAIN d[r][x] :
                        ~(r = s /\ x = id /\ g \in {"response", "responsebody"}) }
                |-> d[r][x][f] ] ] ]

\* C18: a step of a save_response call leaves the index, the record
\* directories and every file but the response and responsebody files of its
\* own record as they are: the request and requestbody files of the record
\* and the files of the other records are unchanged.
C18_ResponseFrame ==
    [][ \A t \in Threads :
          (/\ th'[t] # th[t]
           /\ th'[t].op = "save_response"
           /\ AtRest(t) \/ th[t].pc = "write_rbody") =>
            /\ index' = index
            /\ mtime' = mtime
            /\ OtherFiles(disk', th'[t].store, th'[t].rid)
                  = OtherFiles(disk, th'[t].store, th'[t].rid) ]_vars

\* a save_response has returned for a record with a request body, beside
\* another record: the four files of the first and the snapshot of the second
\* are on disk
C18_Witness ==
    \E t \in Threads :
        /\ th[t].op = "save_response" /\ Returned(t) /\ th[t].err = ""
        /\ LET s == th[t].store
               id == th[t].rid
           IN  /\ id \in DOMAIN disk[s]
               /\ DOMAIN disk[s][id] =
                      {"request", "requestbody", "response", "responsebody"}
               /\ disk[s][id]["request"].id = id
               /\ \E other \in DOMAIN disk[s] \ {id} :
                      "request" \in DOMAIN disk[s][other]

\* C19: a save_request call that raised left no entry in the index; in a
\* store with no call in flight and no _cleanup called, every index entry has
\* its request snapshot on disk.
C19_FailedSaveNotIndexed ==
    /\ \A t \in Threads :
          (th[t].op = "save_request" /\ Returned(t) /\ th[t].err # "") =>
              th[t].rid \notin IndexIds(th[t].store)
    /\ \A s \in Stores :
          (cleanups[s].calls = 0 /\ \A t \in Threads : ~InFlight(t, s)) =>
              \A i \in DOMAIN index[s] :
                  FileAt(GetRequestDir(s, index[s][i][2]), "request") # None

\* a save_request that raised with an absolute base_dir, after a _cleanup
FailedSaveAfterCleanup ==
    \E t \in Threads :
        /\ baseAbs /\ th[t].op = "save_request" /\ Returned(t)
        /\ th[t].err = "FileNotFoundError"
        /\ cleanups[th[t].store].calls > 0
        /\ th[t].rid \in IndexIds(th[t].store)

\* the part of C19 that holds, where base_dir is absolute and no other
\* constructor sweeps: without a _cleanup no save_request fails, and the
\* entries of a store at rest have their snapshots
IndexedSavedAtRest ==
    \A s \in Stores :
        (baseAbs /\ cleanups[s].calls = 0 /\ \A t \in Threads : ~InFlight(t, s)) =>
            \A i \in DOMAIN index[s] :
                FileAt(GetRequestDir(s, index[s][i][2]), "request") # None

\* C20: no constructor fails: the sweep goes on when an entry of its listing
\* has been removed since the listing.
C20_SweepToleratesVanished ==
    \A s \in Stores : sstate[s] # "failed"

====
